---------------------------- MODULE Spec2Model ----------------------------
(***************************************************************************)
(* target_watcher.py: one fetch / filter / deduplicate / notify cycle per   *)
(* invocation, with the seen-set persisted in a JSON state file.            *)
(*                                                                         *)
(* Python strings are modelled as sequences of one-character strings, so    *)
(* that lower(), strip(), startswith(), endswith() and the f-string that    *)
(* derives a request id are computed character by character.                *)
(***************************************************************************)
EXTENDS Integers, Sequences, FiniteSets, TLC

(***************************************************************************)
(* Bounds of the model.                                                     *)
(***************************************************************************)
MaxHostLen == 5      \* longest host string given to host_matches
MaxMonitored == 2    \* longest monitored list given to host_matches
MaxCycles == 2       \* invocations of the program in one behaviour

(***************************************************************************)
(* Program constants of save_state.                                         *)
(***************************************************************************)
EvictThreshold == 50000
EvictBatch == 10000

VARIABLES
    \* --- the pure-function harness (host_matches) ---
    mhMonitored,     \* the monitored list handed to host_matches
    mhHost,          \* the host handed to host_matches
    mhResult,        \* "pending", or the BOOLEAN host_matches returned
    \* --- configuration, resolved once at import time ---
    MONITORED_HOSTS, USE_STATE, SLACK_WEBHOOK, SLACK_SUPPRESS_EMPTY, EMAIL_CONFIGURED,
    \* --- the world outside the process ---
    stateFile,       \* content of STATE_FILE
    slackPosts,      \* requests.post calls to the webhook made by this invocation
    emailSends,      \* SMTP sessions opened by this invocation
    \* --- the running invocation ---
    pc,              \* position in main()
    state,           \* main's `state` dict (its seen_request_ids, insertion-ordered)
    targets,         \* the list fetch_targets returned
    fetchResult,     \* what requests.get / r.json() gave this invocation
    hits,            \* main's `hits` list
    exitCode,        \* "running", or the process exit status "0", "1", "2"
    outcome,         \* where the invocation ended
    cycle,           \* number of the invocation (1-based)
    \* --- history, for properties that relate two invocations ---
    calls,           \* the calls main() has made so far, in order
    wrote,           \* STATE_FILE.write_text ran in this invocation
    evicted,         \* save_state of this invocation deleted entries
    \* --- history, for properties that relate two invocations ---
    prev,            \* summary of the previous invocation
    reported         \* every identifier an earlier invocation counted as a hit

mvars == <<mhMonitored, mhHost, mhResult>>
cfgvars == <<MONITORED_HOSTS, USE_STATE, SLACK_WEBHOOK, SLACK_SUPPRESS_EMPTY, EMAIL_CONFIGURED>>
cvars == <<stateFile, slackPosts, emailSends, pc, state, targets, fetchResult, hits,
           exitCode, outcome, cycle, calls, wrote, evicted, prev, reported>>
vars == <<mvars, cfgvars, cvars>>

(***************************************************************************)
(* Strings.                                                                 *)
(***************************************************************************)
Chars == {"w", "W", ".", " "}

\* str.lower() on one character of the alphabet
LowerChar(c) == IF c = "W" THEN "w" ELSE c

lower(s) == [i \in 1..Len(s) |-> LowerChar(s[i])]

IsSpace(c) == c = " "

RECURSIVE lstrip(_)
lstrip(s) == IF s # <<>> /\ IsSpace(Head(s)) THEN lstrip(Tail(s)) ELSE s

RECURSIVE rstrip(_)
rstrip(s) ==
    IF s # <<>> /\ IsSpace(s[Len(s)]) THEN rstrip(SubSeq(s, 1, Len(s) - 1)) ELSE s

strip(s) == rstrip(lstrip(s))

startswith(s, p) == Len(s) >= Len(p) /\ SubSeq(s, 1, Len(p)) = p

endswith(s, p) == Len(s) >= Len(p) /\ SubSeq(s, Len(s) - Len(p) + 1, Len(s)) = p

WWW == <<"w", "w", "w", ".">>

normalize_host(h) ==
    LET l == strip(lower(h))
    IN  IF startswith(l, WWW) THEN SubSeq(l, 5, Len(l)) ELSE l

\* host_matches with the "." of the suffix test forgotten
RECURSIVE host_matches_nodot(_, _)
host_matches_nodot(monitored, host) ==
    IF monitored = <<>> THEN FALSE
    ELSE LET h == normalize_host(host)
             m == normalize_host(Head(monitored))
         IN  IF h = m \/ endswith(h, m) THEN TRUE
             ELSE host_matches_nodot(Tail(monitored), host)

RECURSIVE host_matches(_, _)
host_matches(monitored, host) ==
    IF monitored = <<>> THEN FALSE
    ELSE LET h == normalize_host(host)
             m == normalize_host(Head(monitored))
         IN  IF h = m \/ endswith(h, <<".">> \o m) THEN TRUE
             ELSE host_matches(Tail(monitored), host)


(***************************************************************************)
(* JSON values of a feed record's fields: absent, a string, or a number     *)
(* (kept as its decimal digits, which is what str() and json.dumps print).  *)
(***************************************************************************)
Absent == [t |-> "none", v |-> <<>>]
Str(s) == [t |-> "str", v |-> s]
Num(d) == [t |-> "int", v |-> d]

\* Python truthiness of a field value
Truthy(x) ==
    CASE x.t = "none" -> FALSE
      [] x.t = "str" -> x.v # <<>>
      [] x.t = "int" -> x.v # <<"0">>

\* what an f-string prints for t.get(name) (None when the key is absent)
Fmt(x) == IF x.t = "none" THEN <<"N", "o", "n", "e">> ELSE x.v

\* what an f-string prints for t.get(name, '')
FmtOrEmpty(x) == IF x.t = "none" THEN <<>> ELSE x.v

(***************************************************************************)
(* Keys of the seen_request_ids dict, in insertion order. A key is a Python *)
(* str, a Python int, or a run: the hi-lo+1 distinct str keys carried by    *)
(* the bulk records numbered lo..hi (kept as one interval so that the       *)
(* 50,000-entry threshold is reached with the program's own constants).     *)
(***************************************************************************)
Key(x) == [t |-> x.t, v |-> x.v, lo |-> 0, hi |-> 0]
Run(lo, hi) == [t |-> "run", v |-> <<>>, lo |-> lo, hi |-> hi]

Size(e) == IF e.t = "run" THEN e.hi - e.lo + 1 ELSE 1

RECURSIVE len(_)
len(seen) == IF seen = <<>> THEN 0 ELSE Size(Head(seen)) + len(Tail(seen))

\* `k in seen` for a str or int key
InSeen(k, seen) == \E i \in 1..Len(seen) : seen[i] = k

\* the parts of run r that run e does not cover, in ascending order
Cut(r, e) ==
    IF e.t # "run" \/ e.hi < r.lo \/ r.hi < e.lo THEN <<r>>
    ELSE (IF r.lo < e.lo THEN <<Run(r.lo, e.lo - 1)>> ELSE <<>>)
         \o (IF e.hi < r.hi THEN <<Run(e.hi + 1, r.hi)>> ELSE <<>>)

RECURSIVE CutAll(_, _)
CutAll(rs, e) == IF rs = <<>> THEN <<>> ELSE Cut(Head(rs), e) \o CutAll(Tail(rs), e)

\* the keys of runs rs that are not in seen (`rid not in seen`, record by record)
RECURSIVE NotInSeen(_, _)
NotInSeen(rs, seen) ==
    IF seen = <<>> THEN rs ELSE NotInSeen(CutAll(rs, Head(seen)), Tail(seen))

\* list(seen.keys())[:n] deleted
RECURSIVE DeleteFirst(_, _)
DeleteFirst(seen, n) ==
    IF n = 0 \/ seen = <<>> THEN seen
    ELSE IF Size(Head(seen)) <= n THEN DeleteFirst(Tail(seen), n - Size(Head(seen)))
    ELSE <<Run(Head(seen).lo + n, Head(seen).hi)>> \o Tail(seen)

\* json.dumps of one dict key: an int key is written as its decimal string
DumpKey(k) == IF k.t = "int" THEN [k EXCEPT !.t = "str"] ELSE k

DumpKeys(seen) == [i \in 1..Len(seen) |-> DumpKey(seen[i])]

\* json.loads of an object: a repeated key keeps its first position
RECURSIVE LoadKeys(_, _)
LoadKeys(text, acc) ==
    IF text = <<>> THEN acc
    ELSE LoadKeys(Tail(text), IF InSeen(Head(text), acc) THEN acc ELSE Append(acc, Head(text)))


(***************************************************************************)
(* State handling.                                                          *)
(*                                                                         *)
(* A state file is missing, unreadable, not JSON, or JSON: then `obj` says  *)
(* whether the JSON value is an object, and `sk` whether its                *)
(* seen_request_ids is absent, null, or a mapping with the keys `seen`.     *)
(* main's `state` has the same obj / sk / seen fields.                      *)
(***************************************************************************)
File(kind, obj, sk, seen) == [kind |-> kind, obj |-> obj, sk |-> sk, seen |-> seen]
Dict(obj, sk, seen) == [obj |-> obj, sk |-> sk, seen |-> seen]

EmptyState == Dict(TRUE, "map", <<>>)

\* load_state that reads the file whatever USE_STATE says
load_state_always(useState, file) ==
    IF file.kind = "json" THEN Dict(file.obj, file.sk, LoadKeys(file.seen, <<>>))
    ELSE EmptyState

\* load_state that never reads the file
load_state_noread(useState, file) == EmptyState

load_state(useState, file) ==
    IF ~useState THEN EmptyState
    ELSE IF file.kind = "missing" THEN EmptyState                \* not STATE_FILE.exists()
    ELSE IF file.kind = "json"
         THEN Dict(file.obj, file.sk, LoadKeys(file.seen, <<>>)) \* json.loads(read_text())
         ELSE EmptyState                                         \* except Exception: pass

\* state.setdefault("seen_request_ids", {}); raised: state is not a dict (AttributeError)
setdefault(st) ==
    IF ~st.obj THEN [raised |-> TRUE, st |-> st]
    ELSE [raised |-> FALSE, st |-> IF st.sk = "absent" THEN Dict(TRUE, "map", <<>>) ELSE st]

\* the seen_request_ids save_state leaves in `state`
Evict(seen) == IF len(seen) > EvictThreshold THEN DeleteFirst(seen, EvictBatch) ELSE seen

Written(seen, ev) ==
    [file |-> File("json", TRUE, "map", DumpKeys(seen)), wrote |-> TRUE, evicted |-> ev]

\* save_state with its USE_STATE test inverted
save_state_inverted(useState, st, file) ==
    IF useState THEN [file |-> file, wrote |-> FALSE, evicted |-> FALSE]
    ELSE Written(Evict(st.seen), len(st.seen) > EvictThreshold)

\* save_state(state): the content of STATE_FILE afterwards, whether write_text ran,
\* and whether entries were deleted
save_state(useState, st, file) ==
    IF ~useState THEN [file |-> file, wrote |-> FALSE, evicted |-> FALSE]
    ELSE Written(Evict(st.seen), len(st.seen) > EvictThreshold)

(***************************************************************************)
(* The feed. An entry of "targets" is a record (a dict), something that is  *)
(* not a dict, or a bulk: the records numbered lo..hi, each with the host   *)
(* BulkHost and its own string request_id.                                  *)
(***************************************************************************)
Record(host, path, type, method, rid) ==
    [kind |-> "record", host |-> host, path |-> path, type |-> type,
     method |-> method, request_id |-> rid, lo |-> 0, hi |-> 0]

BulkHost == <<"w", ".", "w">>

Bulk(lo, hi) ==
    [kind |-> "bulk", host |-> Str(BulkHost), path |-> Absent, type |-> Absent,
     method |-> Absent, request_id |-> Absent, lo |-> lo, hi |-> hi]

NotADict ==
    [kind |-> "other", host |-> Absent, path |-> Absent, type |-> Absent,
     method |-> Absent, request_id |-> Absent, lo |-> 0, hi |-> 0]

\* rid = t.get("request_id") or f"{host}:{path}:{type}:{method}"
request_id(t) ==
    IF Truthy(t.request_id) THEN Key(t.request_id)
    ELSE Key(Str(Fmt(t.host) \o <<":">> \o FmtOrEmpty(t.path) \o <<":">>
                 \o FmtOrEmpty(t.type) \o <<":">> \o FmtOrEmpty(t.method)))

\* host and host_matches(MONITORED_HOSTS, host)
Monitored(monitored, t) == Truthy(t.host) /\ host_matches(monitored, t.host.v)

\* one iteration of main's loop without `seen[rid] = True`
LoopBody_nomark(acc, i, t, monitored) ==
    IF acc.crashed \/ t.kind = "other" \/ ~Monitored(monitored, t) THEN acc
    ELSE IF acc.sk # "map" THEN [acc EXCEPT !.crashed = TRUE]
    ELSE IF t.kind = "record"
         THEN IF InSeen(request_id(t), acc.seen) THEN acc
              ELSE [acc EXCEPT !.hits = Append(@, [i |-> i, k |-> request_id(t)])]
    ELSE LET fresh == NotInSeen(<<Run(t.lo, t.hi)>>, acc.seen)
         IN  [acc EXCEPT !.hits = @ \o [j \in 1..Len(fresh) |-> [i |-> i, k |-> fresh[j]]]]

\* one iteration of main's loop, on entry i of targets; acc.crashed: an exception left the loop
LoopBody(acc, i, t, monitored) ==
    IF acc.crashed \/ t.kind = "other" \/ ~Monitored(monitored, t) THEN acc
    ELSE IF acc.sk # "map" THEN [acc EXCEPT !.crashed = TRUE]   \* `rid not in None`
    ELSE IF t.kind = "record"
         THEN IF InSeen(request_id(t), acc.seen) THEN acc
              ELSE [acc EXCEPT !.hits = Append(@, [i |-> i, k |-> request_id(t)]),
                               !.seen = Append(@, request_id(t))]
    ELSE LET fresh == NotInSeen(<<Run(t.lo, t.hi)>>, acc.seen)
         IN  [acc EXCEPT !.hits = @ \o [j \in 1..Len(fresh) |-> [i |-> i, k |-> fresh[j]]],
                         !.seen = @ \o fresh]

RECURSIVE Loop(_, _, _, _)
Loop(acc, i, ts, monitored) ==
    IF i > Len(ts) THEN acc ELSE Loop(LoopBody(acc, i, ts[i], monitored), i + 1, ts, monitored)

\* len(hits)
RECURSIVE Count(_)
Count(hs) == IF hs = <<>> THEN 0 ELSE Size(Head(hs).k) + Count(Tail(hs))


(***************************************************************************)
(* Notifications.                                                           *)
(***************************************************************************)
\* what a requests.post to the webhook can give
PostOutcomes == {"ok", "http_error", "transport_error"}

\* what the SMTP session can give
SmtpOutcomes == {"ok", "failed"}

Post(what, o) == [what |-> what, result |-> o]
Quiet == [posts |-> <<>>, raised |-> FALSE]

\* notify_slack without its try/except
notify_slack_unguarded(webhook, suppressEmpty, hs, o) ==
    IF ~webhook THEN Quiet
    ELSE IF hs = <<>> /\ suppressEmpty THEN Quiet
    ELSE [posts |-> <<Post(IF hs = <<>> THEN "empty_report" ELSE "hits_report", o)>>,
          raised |-> o # "ok"]

\* notify_slack that returns on an empty hits list whatever SLACK_SUPPRESS_EMPTY says
notify_slack_noempty(webhook, suppressEmpty, hs, o) ==
    IF ~webhook THEN Quiet
    ELSE IF hs = <<>> THEN Quiet
    ELSE [posts |-> <<Post("hits_report", o)>>, raised |-> FALSE]

\* notify_slack(hs): the posts it makes (none or one), and whether an exception leaves it:
\* a failed post or a non-2xx reply (raise_for_status) is caught by `except Exception`
notify_slack(webhook, suppressEmpty, hs, o) ==
    IF ~webhook THEN Quiet
    ELSE IF hs = <<>> /\ suppressEmpty THEN Quiet
    ELSE [posts |-> <<Post(IF hs = <<>> THEN "empty_report" ELSE "hits_report", o)>>,
          raised |-> FALSE]

\* notify_email(hs): the SMTP sessions it opens (none or one), and whether an exception
\* leaves it: a failed session is caught by `except Exception`
notify_email(configured, hs, o) ==
    IF ~configured THEN Quiet
    ELSE [posts |-> <<Post("hits_report", o)>>, raised |-> FALSE]

(***************************************************************************)
(* Inputs.                                                                  *)
(***************************************************************************)
HostSub == <<"w", ".", "w">>     \* under the monitored domain "w"
HostOther == <<"w", "w">>        \* not under it

RecDerived == Record(Str(HostSub), Str(<<"/">>), Absent, Str(<<"G">>), Absent)
RecDerivedPost == Record(Str(HostSub), Str(<<"/">>), Absent, Str(<<"P">>), Absent)
RecEmptyId == Record(Str(HostSub), Str(<<"/">>), Absent, Str(<<"G">>), Str(<<>>))
RecR == Record(Str(<<"W", "W", "W", ".", "w">>), Absent, Str(<<"h">>), Absent, Str(<<"r">>))
RecNum == Record(Str(HostSub), Absent, Absent, Absent, Num(<<"7">>))
RecOther == Record(Str(HostOther), Str(<<"/">>), Absent, Absent, Absent)
RecNoHost == Record(Absent, Absent, Absent, Absent, Str(<<"r">>))

Feeds ==
    { <<>>,
      <<RecDerived, NotADict, RecDerived, RecR>>,
      <<RecDerivedPost, RecEmptyId, RecDerived>>,
      <<RecOther, RecNoHost, RecOther>>,
      <<RecNoHost, RecR>>,
      <<RecNum>>,
      <<Bulk(1, EvictThreshold + 1)>>,
      <<RecR, Bulk(1, EvictThreshold + EvictBatch + 1)>> }

InitialFiles ==
    { File("missing", FALSE, "absent", <<>>),
      File("unreadable", FALSE, "absent", <<>>),
      File("notjson", FALSE, "absent", <<>>),
      File("json", FALSE, "absent", <<>>),            \* e.g. [] or 5
      File("json", TRUE, "absent", <<>>),             \* {}
      File("json", TRUE, "null", <<>>),               \* {"seen_request_ids": null}
      File("json", TRUE, "map", <<Key(Str(<<"r">>))>>) }

MonitoredConfigs == { <<>>, << <<"w">> >> }

\* fetch failures that requests reports as a RequestException: a transport error,
\* raise_for_status() on a non-2xx reply, and r.json() on a body that is not JSON
\* (requests.exceptions.JSONDecodeError)
RequestExceptions == {"network_error", "http_error", "not_json"}

NoPrev ==
    [ran |-> FALSE, outcome |-> "none", fetch |-> "none", targets |-> <<>>, nhits |-> 0,
     hits |-> {}, evicted |-> FALSE, delivered |-> FALSE]

HitKeys(hs) == {hs[i].k : i \in 1..Len(hs)}


(***************************************************************************)
(* One invocation of the program: main() under the __main__ guard.          *)
(***************************************************************************)
Idle == mhMonitored = <<>> /\ mhHost = <<>> /\ mhResult = "idle"

Init ==
    /\ Idle
    /\ MONITORED_HOSTS \in MonitoredConfigs
    /\ USE_STATE \in BOOLEAN
    /\ SLACK_WEBHOOK \in BOOLEAN
    /\ SLACK_SUPPRESS_EMPTY \in BOOLEAN
    /\ EMAIL_CONFIGURED \in BOOLEAN
    /\ stateFile \in InitialFiles
    /\ slackPosts = <<>>
    /\ emailSends = <<>>
    /\ pc = "start"
    /\ state = EmptyState
    /\ targets = <<>>
    /\ fetchResult = "none"
    /\ hits = <<>>
    /\ exitCode = "running"
    /\ outcome = "running"
    /\ cycle = 1
    /\ calls = <<>>
    /\ wrote = FALSE
    /\ evicted = FALSE
    /\ prev = NoPrev
    /\ reported = {}

\* the process ends with exit status code
Exit(code, how) ==
    /\ pc' = "done"
    /\ exitCode' = code
    /\ outcome' = how

\* main: `if not MONITORED_HOSTS: sys.exit(2)`
ConfigError ==
    /\ pc = "start"
    /\ MONITORED_HOSTS = <<>>
    /\ Exit("2", "config_error")
    /\ UNCHANGED <<mvars, cfgvars, stateFile, slackPosts, emailSends, state, targets,
                   fetchResult, hits, cycle, calls, wrote, evicted, prev, reported>>

\* main: state = load_state(); seen = state.setdefault("seen_request_ids", {})
LoadState ==
    /\ pc = "start"
    /\ MONITORED_HOSTS # <<>>
    /\ LET r == setdefault(load_state(USE_STATE, stateFile))
       IN  IF r.raised
           THEN /\ Exit("1", "state_error")
                /\ UNCHANGED state
           ELSE /\ state' = r.st
                /\ pc' = "fetch"
                /\ UNCHANGED <<exitCode, outcome>>
    /\ calls' = Append(calls, "load_state")
    /\ UNCHANGED <<mvars, cfgvars, stateFile, slackPosts, emailSends, targets,
                   fetchResult, hits, cycle, wrote, evicted, prev, reported>>

\* fetch_targets: the GET succeeds and the body is a JSON object
FetchOk ==
    /\ pc = "fetch"
    /\ \E f \in Feeds : targets' = f
    /\ fetchResult' = "ok"
    /\ pc' = "loop"
    /\ calls' = Append(calls, "fetch_targets")
    /\ UNCHANGED <<mvars, cfgvars, stateFile, slackPosts, emailSends, state, hits,
                   exitCode, outcome, cycle, wrote, evicted, prev, reported>>

\* fetch_targets that re-raises without telling Slack
fetch_error_posts_none(webhook, o) == <<>>

\* the error post fetch_targets makes in its except clause; a failure of the post is
\* caught by the inner `except Exception`
fetch_error_posts(webhook, o) == IF webhook THEN <<Post("fetch_error", o)>> ELSE <<>>

\* fetch_targets: `except requests.RequestException`, then `raise`
FetchRequestException ==
    /\ pc = "fetch"
    /\ \E e \in RequestExceptions : fetchResult' = e
    /\ \E o \in PostOutcomes : slackPosts' = slackPosts \o fetch_error_posts(SLACK_WEBHOOK, o)
    /\ Exit("1", "fetch_error")
    /\ calls' = Append(calls, "fetch_targets")
    /\ UNCHANGED <<mvars, cfgvars, stateFile, emailSends, state, targets, hits,
                   cycle, wrote, evicted, prev, reported>>

\* fetch_targets: the body is JSON but not an object, so data.get raises AttributeError,
\* which the except clause does not catch
FetchNotAnObject ==
    /\ pc = "fetch"
    /\ fetchResult' = "json_not_object"
    /\ Exit("1", "fetch_error")
    /\ calls' = Append(calls, "fetch_targets")
    /\ UNCHANGED <<mvars, cfgvars, stateFile, slackPosts, emailSends, state, targets,
                   hits, cycle, wrote, evicted, prev, reported>>

\* main: `for t in targets: ...`, then `if hits:`
ScanTargets ==
    /\ pc = "loop"
    /\ LET acc == Loop([sk |-> state.sk, seen |-> state.seen, hits |-> <<>>,
                        crashed |-> FALSE], 1, targets, MONITORED_HOSTS)
       IN  IF acc.crashed
           THEN /\ Exit("1", "loop_error")
                /\ UNCHANGED <<state, hits>>
           ELSE /\ state' = [state EXCEPT !.seen = acc.seen]
                /\ hits' = acc.hits
                /\ pc' = IF acc.hits # <<>> THEN "notify_slack" ELSE "no_matches"
                /\ UNCHANGED <<exitCode, outcome>>
    /\ UNCHANGED <<mvars, cfgvars, stateFile, slackPosts, emailSends, targets,
                   fetchResult, cycle, calls, wrote, evicted, prev, reported>>

\* main: notify_slack(hits)
NotifySlack ==
    /\ pc = "notify_slack"
    /\ \E o \in PostOutcomes :
          LET r == notify_slack(SLACK_WEBHOOK, SLACK_SUPPRESS_EMPTY, hits, o)
          IN  /\ slackPosts' = slackPosts \o r.posts
              /\ IF r.raised
                 THEN Exit("1", "notify_error")
                 ELSE pc' = "notify_email" /\ UNCHANGED <<exitCode, outcome>>
    /\ calls' = Append(calls, "notify_slack")
    /\ UNCHANGED <<mvars, cfgvars, stateFile, emailSends, state, targets, fetchResult,
                   hits, cycle, wrote, evicted, prev, reported>>

\* main: notify_email(hits)
NotifyEmail ==
    /\ pc = "notify_email"
    /\ \E o \in SmtpOutcomes :
          LET r == notify_email(EMAIL_CONFIGURED, hits, o)
          IN  /\ emailSends' = emailSends \o r.posts
              /\ IF r.raised
                 THEN Exit("1", "notify_error")
                 ELSE pc' = "save_state" /\ UNCHANGED <<exitCode, outcome>>
    /\ calls' = Append(calls, "notify_email")
    /\ UNCHANGED <<mvars, cfgvars, stateFile, slackPosts, state, targets, fetchResult,
                   hits, cycle, wrote, evicted, prev, reported>>

\* main: print("Found ..."); save_state(state); the process then ends normally
SaveState ==
    /\ pc = "save_state"
    /\ LET r == save_state(USE_STATE, state, stateFile)
       IN  /\ stateFile' = r.file
           /\ wrote' = r.wrote
           /\ evicted' = r.evicted
    /\ Exit("0", "matches")
    /\ calls' = Append(calls, "save_state")
    /\ UNCHANGED <<mvars, cfgvars, slackPosts, emailSends, state, targets, fetchResult,
                   hits, cycle, prev, reported>>

\* main: print("No new matches."); `if not SLACK_SUPPRESS_EMPTY: notify_slack([])`
NoNewMatches ==
    /\ pc = "no_matches"
    /\ IF ~SLACK_SUPPRESS_EMPTY
       THEN /\ \E o \in PostOutcomes :
                  LET r == notify_slack(SLACK_WEBHOOK, SLACK_SUPPRESS_EMPTY, <<>>, o)
                  IN  /\ slackPosts' = slackPosts \o r.posts
                      /\ IF r.raised THEN Exit("1", "notify_error")
                                     ELSE Exit("0", "no_matches")
            /\ calls' = Append(calls, "notify_slack")
       ELSE /\ Exit("0", "no_matches")
            /\ UNCHANGED <<slackPosts, calls>>
    /\ UNCHANGED <<mvars, cfgvars, stateFile, emailSends, state, targets, fetchResult,
                   hits, cycle, wrote, evicted, prev, reported>>

\* some post or SMTP session of this invocation went through
Delivered ==
    \/ \E i \in 1..Len(slackPosts) : slackPosts[i].result = "ok"
    \/ \E i \in 1..Len(emailSends) : emailSends[i].result = "ok"

\* the scheduler starts the program again
NextInvocation ==
    /\ pc = "done"
    /\ cycle < MaxCycles
    /\ cycle' = cycle + 1
    /\ prev' = [ran |-> TRUE, outcome |-> outcome, fetch |-> fetchResult,
                targets |-> targets, nhits |-> Count(hits), hits |-> HitKeys(hits),
                evicted |-> evicted, delivered |-> Delivered]
    /\ reported' = reported \cup (IF outcome = "matches" THEN HitKeys(hits) ELSE {})
    /\ pc' = "start"
    /\ state' = EmptyState
    /\ targets' = <<>>
    /\ fetchResult' = "none"
    /\ hits' = <<>>
    /\ exitCode' = "running"
    /\ outcome' = "running"
    /\ slackPosts' = <<>>
    /\ emailSends' = <<>>
    /\ calls' = <<>>
    /\ wrote' = FALSE
    /\ evicted' = FALSE
    /\ UNCHANGED <<mvars, cfgvars, stateFile>>

Next ==
    \/ ConfigError
    \/ LoadState
    \/ FetchOk
    \/ FetchRequestException
    \/ FetchNotAnObject
    \/ ScanTargets
    \/ NotifySlack
    \/ NotifyEmail
    \/ SaveState
    \/ NoNewMatches
    \/ NextInvocation

Spec == Init /\ [][Next]_vars


(***************************************************************************)
(* host_matches on its own: every monitored list of up to MaxMonitored      *)
(* entries and every host of up to MaxHostLen characters.                   *)
(***************************************************************************)
HostStrings == UNION {[1..n -> Chars] : n \in 0..MaxHostLen}

MonitoredEntries == { <<"w">>, <<"w", ".", "w">>, <<"W", "w", "w", ".", "w">> }

MonitoredLists == UNION {[1..n -> MonitoredEntries] : n \in 0..MaxMonitored}

NotRunning ==
    /\ MONITORED_HOSTS = <<>> /\ USE_STATE = FALSE /\ SLACK_WEBHOOK = FALSE
    /\ SLACK_SUPPRESS_EMPTY = TRUE /\ EMAIL_CONFIGURED = FALSE
    /\ stateFile = File("missing", FALSE, "absent", <<>>)
    /\ slackPosts = <<>> /\ emailSends = <<>> /\ pc = "idle" /\ state = EmptyState
    /\ targets = <<>> /\ fetchResult = "none" /\ hits = <<>> /\ exitCode = "running"
    /\ outcome = "running" /\ cycle = 0 /\ calls = <<>> /\ wrote = FALSE
    /\ evicted = FALSE /\ prev = NoPrev /\ reported = {}

MatchInit ==
    /\ NotRunning
    /\ mhMonitored \in MonitoredLists
    /\ mhHost \in HostStrings
    /\ mhResult = "pending"

\* the call host_matches(monitored, host)
CallHostMatches ==
    /\ mhResult = "pending"
    /\ mhResult' = IF host_matches(mhMonitored, mhHost) THEN "True" ELSE "False"
    /\ UNCHANGED <<mhMonitored, mhHost, cfgvars, cvars>>

MatchNext == CallHostMatches

SpecMatch == MatchInit /\ [][MatchNext]_vars


(***************************************************************************)
(* Properties.                                                              *)
(***************************************************************************)

\* ---- Host Matcher --------------------------------------------------------
\* The normalisation as the specification words it, stated without the code's
\* operators: positions instead of recursion, existence of a prefix instead of slicing.
Lowercased(s) == [i \in 1..Len(s) |-> IF s[i] = "W" THEN "w" ELSE s[i]]

Trimmed(s) ==
    LET solid == {i \in 1..Len(s) : s[i] # " "}
    IN  IF solid = {} THEN <<>>
        ELSE SubSeq(s, CHOOSE i \in solid : \A j \in solid : i <= j,
                       CHOOSE i \in solid : \A j \in solid : j <= i)

WithoutWww(s) ==
    IF \E k \in 0..Len(s) : s = <<"w", "w", "w", ".">> \o SubSeq(s, Len(s) - k + 1, Len(s))
    THEN SubSeq(s, 5, Len(s)) ELSE s

\* "ends with '.' followed by m"
DotSuffix(h, m) == \E k \in 0..Len(h) : h = SubSeq(h, 1, k) \o <<".">> \o m

NormalizedAsWorded(s) == WithoutWww(Lowercased(s))
NormalizedTrimmed(s) == WithoutWww(Trimmed(Lowercased(s)))

Answered == mhResult # "pending"

\* C8 as worded: host_matches(M, h) is true iff, for some m in M, normalized(h) equals
\* normalized(m) or ends with "." + normalized(m), where normalized lowercases and strips
\* one leading "www."
C8_AsWorded ==
    Answered =>
      ((mhResult = "True") <=>
         \E i \in 1..Len(mhMonitored) :
            \/ NormalizedAsWorded(mhHost) = NormalizedAsWorded(mhMonitored[i])
            \/ DotSuffix(NormalizedAsWorded(mhHost), NormalizedAsWorded(mhMonitored[i])))

\* C8 amended: the same equivalence with the normalisation the code applies: lowercase,
\* trim surrounding whitespace, then strip one leading "www."; and the three examples
\* (with "w" for example.com): "w.w" and "www.w" match, "ww" does not
C8_HostMatches ==
    Answered =>
      /\ (mhResult = "True") <=>
           \E i \in 1..Len(mhMonitored) :
              \/ NormalizedTrimmed(mhHost) = NormalizedTrimmed(mhMonitored[i])
              \/ DotSuffix(NormalizedTrimmed(mhHost), NormalizedTrimmed(mhMonitored[i]))
      /\ mhMonitored = << <<"w">> >> =>
           /\ mhHost = <<"w", ".", "w">> => mhResult = "True"
           /\ mhHost = <<"w", "w", "w", ".", "w">> => mhResult = "True"
           /\ mhHost = <<"w", "w">> => mhResult = "False"

\* a host that matches as a subdomain only once it is lowercased and trimmed
C8_Witness ==
    /\ mhMonitored = << <<"w">> >>
    /\ mhHost = <<" ", "W", ".", "w", " ">>
    /\ mhResult = "True"


\* ---- Cycle ---------------------------------------------------------------
Finished == pc = "done"

\* main returned normally: the loop ran to its end and one of the two branches was taken
Completed(o) == o \in {"matches", "no_matches"}

\* the loop is over and `hits` is final
Scanned == pc \in {"notify_slack", "notify_email", "save_state", "no_matches"} \/ (Finished /\ Completed(outcome))

\* two keys name a common identifier
Overlaps(a, b) ==
    IF a.t = "run" /\ b.t = "run" THEN a.lo <= b.hi /\ b.lo <= a.hi ELSE a = b

HitIndexes == {hits[i].i : i \in 1..Len(hits)}

\* every request_id the feed gives is a string (or absent)
StringIds(ts) == \A i \in 1..Len(ts) : ts[i].request_id.t # "int"

\* the feed has a record under a monitored host
HasMonitored(ts) ==
    \E i \in 1..Len(ts) : ts[i].kind # "other" /\ Monitored(MONITORED_HOSTS, ts[i])

\* this invocation has ended, and it fetched the feed the previous one fetched
Replay ==
    /\ Finished /\ fetchResult = "ok"
    /\ prev.ran /\ prev.fetch = "ok"
    /\ prev.targets = targets

\* the keys json.loads gives for the state file as it is now
FileKeys == LoadKeys(stateFile.seen, <<>>)

\* C1 as worded: in stateful mode a replay of the same feed has zero hits, and an
\* identifier an earlier cycle put into the Seen Set as a hit is never a hit again
\* (stated for the feeds whose request ids are strings, as the data model has them)
C1_AsWorded ==
    (USE_STATE /\ StringIds(targets) /\ StringIds(prev.targets)) =>
      /\ Replay => hits = <<>>
      /\ Scanned => \A h \in HitKeys(hits) : \A r \in reported : ~Overlaps(h, r)

\* C1 amended: in stateful mode a replay of the same feed has zero hits provided the
\* feed's request ids are strings and the first run's save_state evicted nothing; and in
\* every cycle no identifier that is in the Seen Set loaded from the state file is a hit
C1_Idempotent ==
    USE_STATE =>
      /\ (Replay /\ StringIds(targets) /\ ~prev.evicted) => hits = <<>>
      /\ (Scanned /\ ~wrote) =>
            \A h \in HitKeys(hits) : \A i \in 1..Len(FileKeys) : ~Overlaps(h, FileKeys[i])

\* a replay, with nothing evicted, of a feed whose records were all hits the first time
C1_Witness ==
    /\ USE_STATE /\ Replay /\ StringIds(targets) /\ ~prev.evicted
    /\ prev.outcome = "matches" /\ prev.nhits = 2
    /\ hits = <<>> /\ outcome = "no_matches"

\* C2: whatever set save_state is handed, the set it writes holds at most 50,000 entries
C2_Bounded == wrote => len(stateFile.seen) <= EvictThreshold

\* C3: whatever the state file holds, the run goes on as with an empty Seen Set and does
\* not end in an error exit caused by the state file
C3_LoadNeverFails ==
    USE_STATE =>
      /\ Finished => outcome \notin {"state_error", "loop_error"}
      /\ (pc = "fetch" /\ ~(stateFile.kind = "json" /\ stateFile.obj /\ stateFile.sk = "map"))
            => state = EmptyState

\* C4: a failed fetch (transport error, non-2xx, body not JSON) with a webhook configured
\* makes exactly one post, the fetch error, and the process exits 1 whatever the post gave;
\* nothing else is sent or written
C4_FetchFailure ==
    (Finished /\ fetchResult \in RequestExceptions) =>
      /\ exitCode = "1"
      /\ SLACK_WEBHOOK => Len(slackPosts) = 1 /\ slackPosts[1].what = "fetch_error"
      /\ ~SLACK_WEBHOOK => slackPosts = <<>>
      /\ emailSends = <<>> /\ ~wrote /\ hits = <<>>

\* the body was not JSON, the webhook is configured and the error post itself failed
C4_Witness ==
    /\ Finished /\ fetchResult = "not_json" /\ SLACK_WEBHOOK
    /\ slackPosts = <<Post("fetch_error", "transport_error")>>
    /\ exitCode = "1"

\* the hits post to the webhook failed (transport error or non-2xx reply)
SlackFailed ==
    \E i \in 1..Len(slackPosts) :
        slackPosts[i].what = "hits_report" /\ slackPosts[i].result # "ok"

Called(name) == \E i \in 1..Len(calls) : calls[i] = name

\* C5: once the hits post has failed, the cycle still goes on to the email sink and to
\* save_state, and the process exits 0
C5_SinkIndependence ==
    SlackFailed =>
      /\ pc \in {"notify_email", "save_state", "done"}
      /\ pc \in {"save_state", "done"} =>
            /\ Called("notify_email")
            /\ EMAIL_CONFIGURED => Len(emailSends) = 1
      /\ Finished =>
            /\ Called("save_state")
            /\ USE_STATE => wrote /\ \A h \in HitKeys(hits) : evicted \/ InSeen(DumpKey(h), stateFile.seen)
            /\ exitCode = "0" /\ outcome = "matches"

\* the webhook answered non-2xx, the email went out, the state was written, exit 0
C5_Witness ==
    /\ Finished /\ USE_STATE /\ EMAIL_CONFIGURED
    /\ slackPosts = <<Post("hits_report", "http_error")>>
    /\ emailSends = <<Post("hits_report", "ok")>>
    /\ wrote /\ exitCode = "0"

\* records i < j of the feed with the same host, path, type and method and no request_id
Twins(i, j) ==
    /\ i < j
    /\ targets[i].kind = "record" /\ targets[j].kind = "record"
    /\ ~Truthy(targets[i].request_id) /\ ~Truthy(targets[j].request_id)
    /\ targets[i].host = targets[j].host /\ targets[i].path = targets[j].path
    /\ targets[i].type = targets[j].type /\ targets[i].method = targets[j].method

\* C6: twins get the same derived identifier, the later one is never a hit, and the first
\* of them is a hit when its host is monitored and its identifier was not seen before it
C6_DerivedIdDedup ==
    Scanned =>
      \A i, j \in 1..Len(targets) :
        Twins(i, j) =>
          /\ request_id(targets[i]) = request_id(targets[j])
          /\ j \notin HitIndexes
          /\ ( /\ Monitored(MONITORED_HOSTS, targets[i])
               /\ ~wrote /\ ~InSeen(request_id(targets[i]), load_state(USE_STATE, stateFile).seen)
               /\ \A k \in 1..(i - 1) : targets[k].kind = "record"
                                         => request_id(targets[k]) # request_id(targets[i]) )
             => i \in HitIndexes

\* twins under a monitored host: the first is a hit, the second is not
C6_Witness ==
    /\ Scanned
    /\ \E i, j \in 1..Len(targets) :
          Twins(i, j) /\ i \in HitIndexes /\ j \notin HitIndexes

\* C7: in stateless mode load_state gives an empty Seen Set, the state file is never
\* written, and a replay of a feed with a monitored record has the same non-zero hit count
C7_Stateless ==
    ~USE_STATE =>
      /\ ~wrote
      /\ pc = "fetch" => state = EmptyState
      /\ (Replay /\ HasMonitored(targets)) =>
            /\ Count(hits) = prev.nhits
            /\ Count(hits) > 0

\* a stateless replay of a feed whose only monitored identifier is in the state file
C7_Witness ==
    /\ ~USE_STATE /\ Replay
    /\ targets = <<RecNoHost, RecR>>
    /\ stateFile.kind = "json" /\ InSeen(request_id(RecR), stateFile.seen)
    /\ Count(hits) = 1 /\ prev.nhits = 1

\* C9: a cycle without hits, webhook configured: no post with suppress-empty on, exactly
\* one empty-report post with it off; nothing is written, no email, exit 0
C9_EmptyRun ==
    (Finished /\ SLACK_WEBHOOK /\ Called("fetch_targets") /\ fetchResult = "ok"
        /\ hits = <<>> /\ outcome # "loop_error") =>
      /\ SLACK_SUPPRESS_EMPTY => slackPosts = <<>>
      /\ ~SLACK_SUPPRESS_EMPTY => Len(slackPosts) = 1 /\ slackPosts[1].what = "empty_report"
      /\ ~wrote /\ ~Called("save_state")
      /\ emailSends = <<>> /\ ~Called("notify_email")
      /\ exitCode = "0"

\* no hits because every monitored record was already seen; suppress-empty off, one post
C9_Witness ==
    /\ Finished /\ SLACK_WEBHOOK /\ ~SLACK_SUPPRESS_EMPTY /\ EMAIL_CONFIGURED /\ USE_STATE
    /\ targets = <<RecNoHost, RecR>> /\ hits = <<>>
    /\ slackPosts = <<Post("empty_report", "ok")>>
    /\ exitCode = "0"

\* notify_slack and notify_email were called, in this order, before save_state, and each
\* configured sink was tried
SinksBeforeSave ==
    /\ \E i, j, k \in 1..Len(calls) :
          /\ i < j /\ j < k
          /\ calls[i] = "notify_slack" /\ calls[j] = "notify_email" /\ calls[k] = "save_state"
    /\ SLACK_WEBHOOK => Len(slackPosts) = 1
    /\ EMAIL_CONFIGURED => Len(emailSends) = 1

\* C10 as worded: the state is written only after both sinks were tried; a finished cycle
\* with hits has written every hit's identifier whatever the sinks gave; and no later
\* cycle reports a record an earlier cycle counted as a hit
C10_AsWorded ==
    USE_STATE =>
      /\ wrote => SinksBeforeSave
      /\ (Finished /\ hits # <<>> /\ outcome # "loop_error") =>
            wrote /\ \A h \in HitKeys(hits) : InSeen(DumpKey(h), stateFile.seen)
      /\ Scanned => \A h \in HitKeys(hits) : \A r \in reported : ~Overlaps(h, r)

\* C10 amended: the state is written only after both sinks were tried; a finished cycle
\* with hits has run save_state whatever the sinks gave and, unless save_state evicted,
\* the file holds every hit's identifier (a number as its decimal string); and the next
\* cycle, if that save evicted nothing, reports none of those hits whose identifier is a
\* string
C10_PersistAfterNotify ==
    USE_STATE =>
      /\ wrote => SinksBeforeSave
      /\ (Finished /\ hits # <<>> /\ outcome # "loop_error") =>
            /\ wrote
            /\ ~evicted => \A h \in HitKeys(hits) : InSeen(DumpKey(h), stateFile.seen)
      /\ (Scanned /\ prev.ran /\ prev.outcome = "matches" /\ ~prev.evicted) =>
            \A h \in HitKeys(hits) : \A r \in prev.hits : r.t # "int" => ~Overlaps(h, r)

\* the previous cycle had hits and delivered no notification; the same feed has no hits now
C10_Witness ==
    /\ USE_STATE /\ Replay
    /\ prev.outcome = "matches" /\ prev.nhits > 0 /\ ~prev.delivered /\ ~prev.evicted
    /\ SLACK_WEBHOOK /\ EMAIL_CONFIGURED
    /\ hits = <<>>

=============================================================================
